---- MODULE Spec2Model ----
(***************************************************************************)
(* SEC13FAnalyzer (src/src/insight13f/sec_13f_analyzer.py) as a state      *)
(* machine: one run of analyze_institution, from the lookup of the         *)
(* filer's submission index to the returned result record.                 *)
(***************************************************************************)
EXTENDS FiniteSets, Integers, Naturals, Sequences, TLC

VARIABLES
    pc,                 \* position of analyze_institution
    steps,              \* the calls analyze_institution has made, in order
    export_csv,         \* argument export_csv of analyze_institution
    user_agent,         \* headers['User-Agent'] of the analyzer's session
    recent,             \* data["filings"]["recent"] held by get_recent_13f_filings
    filings,            \* local list `filings` of get_recent_13f_filings
    current_accession,  \* 0 = not assigned
    previous_accession, \* 0 = not assigned
    url_i,              \* index into possible_urls of the running fetch_13f_xml
    requests,           \* every session.get issued for a document, in order
    current_xml,
    previous_xml,
    current_holdings,
    previous_holdings,
    parse_report,       \* the counts each parse_13f_xml call has printed (line 275)
    analysis_data,
    tables,
    exported,           \* names of the CSV files written
    error,              \* message of the exception that ended the run
    results             \* the record analyze_institution returns

vars == <<pc, steps, export_csv, user_agent, recent, filings, current_accession,
          previous_accession, url_i, requests, current_xml, previous_xml,
          current_holdings, previous_holdings, parse_report, analysis_data, tables,
          exported, error, results>>

----------------------------------------------------------------------------
\* Bounds of the model.

\* Longest submission index the registry returns.
MaxFilings == 3

\* Filing dates are 1..MaxDate (ISO dates compare as strings the way these
\* numbers compare).
MaxDate == 2

----------------------------------------------------------------------------
\* get_recent_13f_filings

\* The form types the submission index may carry.
FormTypes == {"13F-HR", "13F-HR/A", "10-K"}

\* line 133: the forms kept by the filter.
AcceptedForms == {"13F-HR", "13F-HR/A"}

\* A submission index: the zip of recent["form"], recent["accessionNumber"]
\* and recent["filingDate"].  Accession numbers are unique: entry i carries
\* accession number i.
IndexInputs ==
    UNION { { [i \in 1..n |-> [form |-> f[i], accession |-> i, date |-> d[i]]]
              : f \in [1..n -> FormTypes], d \in [1..n -> 1..MaxDate] }
            : n \in 0..MaxFilings }

\* lines 130-134: keep the accepted forms, in index order.
RECURSIVE FilterForms(_)
FilterForms(s) ==
    IF s = <<>> THEN <<>>
    ELSE IF Head(s).form \in AcceptedForms
         THEN <<Head(s)>> \o FilterForms(Tail(s))
         ELSE FilterForms(Tail(s))

\* The check written as `len(filings) <= 2`.
InsufficientOffByOne(kept) == Len(kept) <= 2

\* line 136: too few filings are left.
Insufficient(kept) == Len(kept) < 2

\* Place x in a list sorted newest first, behind every entry that is not
\* older (list.sort is stable, also with reverse=True).
RECURSIVE InsertByDateDesc(_, _)
InsertByDateDesc(x, s) ==
    IF s = <<>> THEN <<x>>
    ELSE IF Head(s).date >= x.date
         THEN <<Head(s)>> \o InsertByDateDesc(x, Tail(s))
         ELSE <<x>> \o s

RECURSIVE SortFrom(_, _)
SortFrom(done, rest) ==
    IF rest = <<>> THEN done
    ELSE SortFrom(InsertByDateDesc(Head(rest), done), Tail(rest))

\* The list left in index order.
SortForgotten(s) == s

\* line 140: filings.sort(key=lambda x: x[2], reverse=True)
SortByDateDesc(s) == SortFrom(<<>>, s)

----------------------------------------------------------------------------
\* Documents and HTTP responses

\* The text markers a document may contain (lower-cased).
Markers == {"informationtable", "infotable", "nameofissuer", "cusip", "submission"}

\* A security identifier is a sequence of characters.
CusipA  == <<1, 1, 1, 1, 1, 1, 1, 1, 1>>
CusipA2 == <<1, 1, 1, 1, 1, 1, 1, 1, 2>>
CusipB  == <<2, 2, 2, 2, 2, 2, 2, 2, 2>>
CusipC  == <<3, 3, 3, 3, 3, 3, 3, 3, 3>>

\* An element of an <infoTable> row: <<>> when the element is absent, else
\* <<text>>.  The text of <value> is [num |-> it parses as a float, v |-> it].
Row(issuer, cusip, value) ==
    [issuer |-> <<issuer>>, cusip |-> <<cusip>>,
     value |-> <<[num |-> TRUE, v |-> value]>>]

\* The value None of Optional[str].
NoXml ==
    [none |-> TRUE, empty |-> TRUE, markers |-> {}, wellformed |-> FALSE,
     rows |-> <<>>]

Document(markers, wellformed, rows) ==
    [none |-> FALSE, empty |-> FALSE, markers |-> markers,
     wellformed |-> wellformed, rows |-> rows]

\* response.text == ""
EmptyBody ==
    [none |-> FALSE, empty |-> TRUE, markers |-> {}, wellformed |-> FALSE,
     rows |-> <<>>]

\* A cover page: well-formed markup without a single <infoTable>.
CoverPage == Document({"submission", "nameofissuer"}, TRUE, <<>>)

\* A holdings table cut off in transfer: ET.fromstring raises ParseError.
MalformedTable ==
    Document({"informationtable", "infotable", "nameofissuer", "cusip"}, FALSE, <<>>)

TableNow ==
    Document({"informationtable", "infotable", "nameofissuer", "cusip"}, TRUE,
             << Row("Acme Corp ", CusipA, 6), Row("BETA INC", CusipB, 4) >>)

TableBefore ==
    Document({"informationtable", "infotable", "nameofissuer", "cusip"}, TRUE,
             << Row("ACME CORP", CusipA, 3), Row("ACME CORP", CusipA2, 1),
                Row("GAMMA LTD", CusipC, 4) >>)

\* The bodies a 200 response may carry.
Bodies == {EmptyBody, CoverPage, MalformedTable, TableNow, TableBefore}

\* What session.get(url, timeout=30) may do: return a response with a status
\* code and a body, or raise (timeout, connection error).
Responses ==
    { [raised |-> FALSE, status |-> 200, text |-> b] : b \in Bodies }
    \cup { [raised |-> FALSE, status |-> 404, text |-> CoverPage],
           [raised |-> TRUE, status |-> 0, text |-> NoXml] }

\* lines 176-181: possible_urls, by file name.
possible_urls ==
    << "form13fInfoTable.xml", "InfoTable.xml", "primary_doc.xml",
       "d{accession[:12]}inftable.xml" >>

\* The check written as `xml == ""`, which lets None through.
FalsyOnlyEmptyText(xml) == xml.empty /\ ~xml.none

\* `not xml` of lines 503 and 509: None and "" are both falsy.
Falsy(xml) == xml.none \/ xml.empty

----------------------------------------------------------------------------
\* parse_13f_xml

\* lines 249: issuer_elem.text.strip().upper(), on the issuer names of the
\* documents above.
StripUpper(name) ==
    CASE name = "Acme Corp " -> "ACME CORP"
      [] name = "  "         -> ""
      [] OTHER               -> name

\* line 258: cusip_full[:8]
Cusip8(cusip) == SubSeq(cusip, 1, IF Len(cusip) < 8 THEN Len(cusip) ELSE 8)

\* line 229: the value a key of the defaultdict starts with.
NoHolding == [company_name |-> "", market_value |-> 0]

Lookup(holdings, key) ==
    IF key \in DOMAIN holdings THEN holdings[key] ELSE NoHolding

\* The loop with the record of the key read before float() is called: the
\* defaultdict creates the key of a row whose value is no number.
ParseRowTouchingKey(acc, row) ==
    IF row.issuer = <<>> \/ row.cusip = <<>> \/ row.value = <<>>
    THEN [acc EXCEPT !.errors = @ + 1]
    ELSE
      LET issuer_name == StripUpper(row.issuer[1])
          cusip_key == Cusip8(row.cusip[1])
          old == Lookup(acc.holdings, cusip_key)
          market_value_usd == row.value[1].v * 1000
          new == [market_value |-> old.market_value + market_value_usd,
                  company_name |->
                      IF old.company_name = "" /\ issuer_name # ""
                      THEN issuer_name ELSE old.company_name]
      IN [holdings |-> [k \in DOMAIN acc.holdings \cup {cusip_key} |->
                            IF k = cusip_key
                            THEN (IF row.value[1].num THEN new ELSE old)
                            ELSE acc.holdings[k]],
          processed |-> IF row.value[1].num THEN acc.processed + 1 ELSE acc.processed,
          errors |-> IF row.value[1].num THEN acc.errors ELSE acc.errors + 1]

\* lines 239-273: one pass of the loop over the <infoTable> elements.  acc is
\* [holdings, processed, errors].
ParseRow(acc, row) ==
    IF row.issuer = <<>> \/ row.cusip = <<>> \/ row.value = <<>>
    THEN [acc EXCEPT !.errors = @ + 1]                       \* lines 245-247
    ELSE IF ~row.value[1].num
    THEN [acc EXCEPT !.errors = @ + 1]                       \* lines 271-273
    ELSE
      LET issuer_name == StripUpper(row.issuer[1])
          cusip_key == Cusip8(row.cusip[1])
          market_value_usd == row.value[1].v * 1000
          old == Lookup(acc.holdings, cusip_key)
          new == [market_value |-> old.market_value + market_value_usd,
                  company_name |->
                      IF old.company_name = "" /\ issuer_name # ""
                      THEN issuer_name ELSE old.company_name]
      IN [holdings |-> [k \in DOMAIN acc.holdings \cup {cusip_key} |->
                            IF k = cusip_key THEN new ELSE acc.holdings[k]],
          processed |-> acc.processed + 1,
          errors |-> acc.errors]

RECURSIVE ParseRows(_, _)
ParseRows(acc, rows) ==
    IF rows = <<>> THEN acc
    ELSE ParseRows(ParseRow(acc, Head(rows)), Tail(rows))

NoHoldings == [k \in {} |-> NoHolding]

\* lines 222-226: ET.fromstring raises ParseError on malformed markup.
ParseFails(xml) == ~xml.wellformed

\* lines 199-276
parse_13f_xml(xml) ==
    IF ParseFails(xml) THEN NoHoldings
    ELSE ParseRows([holdings |-> NoHoldings, processed |-> 0, errors |-> 0],
                   xml.rows).holdings

\* line 275: the counts the loop ends with.
ParseCounts(xml) ==
    LET acc == ParseRows([holdings |-> NoHoldings, processed |-> 0, errors |-> 0],
                         xml.rows)
    IN [processed |-> acc.processed, errors |-> acc.errors]

\* lines 222-226 and 275: a parse that fails returns before it prints its
\* counts.
Printed(report, xml) ==
    IF ParseFails(xml) THEN report ELSE Append(report, ParseCounts(xml))

----------------------------------------------------------------------------
\* get_ticker_symbol

\* lines 28-92: the first entries of ticker_mapping, in dict order.
ticker_mapping ==
    << [pattern |-> "APPLE INC", ticker |-> "AAPL"],
       [pattern |-> "BANK OF AMERICA CORP", ticker |-> "BAC"],
       [pattern |-> "BANK AMER CORP", ticker |-> "BAC"] >>

\* Python's `a in b` for strings, on the names of this model: the empty
\* string is in every string, a string is in itself.
StrIn(a, b) == a = "" \/ a = b

RECURSIVE FirstVariation(_, _)
FirstVariation(clean_name, mapping) ==
    IF mapping = <<>> THEN "N/A"
    ELSE IF StrIn(Head(mapping).pattern, clean_name)
            \/ StrIn(clean_name, Head(mapping).pattern)
         THEN Head(mapping).ticker
         ELSE FirstVariation(clean_name, Tail(mapping))

\* lines 278-300
get_ticker_symbol(company_name) ==
    LET clean_name == StripUpper(company_name) IN
    IF \E i \in DOMAIN ticker_mapping : ticker_mapping[i].pattern = clean_name
    THEN ticker_mapping[CHOOSE i \in DOMAIN ticker_mapping :
                            ticker_mapping[i].pattern = clean_name].ticker
    ELSE FirstVariation(clean_name, ticker_mapping)

----------------------------------------------------------------------------
\* calculate_portfolio_changes

RECURSIVE SumValues(_, _)
SumValues(holdings, keys) ==
    IF keys = {} THEN 0
    ELSE LET k == CHOOSE x \in keys : TRUE
         IN holdings[k].market_value + SumValues(holdings, keys \ {k})

\* lines 323-324: sum(...) or 1.0
Total(holdings) ==
    LET sum == SumValues(holdings, DOMAIN holdings)
    IN IF sum = 0 THEN 1 ELSE sum

RECURSIVE Gcd(_, _)
Gcd(a, b) == IF b = 0 THEN a ELSE Gcd(b, a % b)

Abs(x) == IF x < 0 THEN -x ELSE x

\* A weight is the exact fraction n / d, in lowest terms with d > 0, of the
\* float the code holds.  The divisor is never 0 (lines 323-324); it is
\* negative when the values of a snapshot sum to less than 0.
Frac(n, d) ==
    LET g == Gcd(Abs(n), Abs(d))
        sign == IF d < 0 THEN -1 ELSE 1
    IN [n |-> sign * (n \div g), d |-> Abs(d) \div g]
FracSub(a, b) == Frac(a.n * b.d - b.n * a.d, a.d * b.d)
FracLess(a, b) == a.n * b.d < b.n * a.d
FracSign(a) == IF a.n > 0 THEN 1 ELSE IF a.n < 0 THEN -1 ELSE 0

\* lines 334-366: the row of one cusip.
DeltaRow(cusip, current_holdings_, previous_holdings_) ==
    LET total_current == Total(current_holdings_)
        total_previous == Total(previous_holdings_)
        current_data == Lookup(current_holdings_, cusip)
        previous_data == Lookup(previous_holdings_, cusip)
        company_name == IF current_data.company_name # ""
                        THEN current_data.company_name
                        ELSE previous_data.company_name
        weight_current == Frac(current_data.market_value * 100, total_current)
        weight_previous == Frac(previous_data.market_value * 100, total_previous)
    IN [cusip |-> cusip,
        company_name |-> company_name,
        ticker |-> get_ticker_symbol(company_name),
        current_value |-> current_data.market_value,
        previous_value |-> previous_data.market_value,
        weight_current |-> weight_current,
        weight_previous |-> weight_previous,
        weight_change |-> FracSub(weight_current, weight_previous),
        status |-> IF previous_data.market_value = 0 THEN "NEW"
                   ELSE IF current_data.market_value = 0 THEN "EXIT"
                   ELSE "CHANGE"]

\* The orders in which `for cusip in all_cusips` may visit a set.
Orders(keys) ==
    { o \in [1..Cardinality(keys) -> keys] :
        \A i, j \in 1..Cardinality(keys) : i # j => o[i] # o[j] }

\* lines 302-369, the set all_cusips being visited in `order`.
calculate_portfolio_changes(current_holdings_, previous_holdings_, order) ==
    [i \in 1..Len(order) |-> DeltaRow(order[i], current_holdings_, previous_holdings_)]

----------------------------------------------------------------------------
\* generate_tables

\* lines 388, 392, 396: the slice [:20].
TopN == 20

Take(s, n) == SubSeq(s, 1, IF Len(s) < n THEN Len(s) ELSE n)

\* The filters of lines 391 and 395.
Keep(filter, x) ==
    CASE filter = "buys"  -> FracSign(x.weight_change) > 0
      [] filter = "sells" -> FracSign(x.weight_change) < 0
      [] OTHER            -> TRUE

RECURSIVE SelectRows(_, _)
SelectRows(s, filter) ==
    IF s = <<>> THEN <<>>
    ELSE IF Keep(filter, Head(s)) THEN <<Head(s)>> \o SelectRows(Tail(s), filter)
         ELSE SelectRows(Tail(s), filter)

\* The sort keys of lines 384-388, 392 and 396: x is placed before y.
Before(key, x, y) ==
    CASE key = "weight_current desc" -> FracLess(y.weight_current, x.weight_current)
      [] key = "weight_change desc"  -> FracLess(y.weight_change, x.weight_change)
      [] OTHER                       -> FracLess(x.weight_change, y.weight_change)

\* sorted(...) is stable: x goes behind every row that does not come after it.
RECURSIVE InsertRow(_, _, _)
InsertRow(x, s, key) ==
    IF s = <<>> THEN <<x>>
    ELSE IF Before(key, x, Head(s)) THEN <<x>> \o s
         ELSE <<Head(s)>> \o InsertRow(x, Tail(s), key)

RECURSIVE SortRows(_, _, _)
SortRows(done, rest, key) ==
    IF rest = <<>> THEN done
    ELSE SortRows(InsertRow(Head(rest), done, key), Tail(rest), key)

Sorted(s, key) == SortRows(<<>>, s, key)

\* The tables cut to size before they are sorted.
SliceBeforeSort(analysis_data_) ==
    [top_holdings |-> Sorted(Take(analysis_data_, TopN), "weight_current desc"),
     top_buys |-> Sorted(Take(SelectRows(analysis_data_, "buys"), TopN),
                         "weight_change desc"),
     top_sells |-> Sorted(Take(SelectRows(analysis_data_, "sells"), TopN),
                          "weight_change asc")]

\* lines 371-402
generate_tables(analysis_data_) ==
    [top_holdings |-> Take(Sorted(analysis_data_, "weight_current desc"), TopN),
     top_buys |-> Take(Sorted(SelectRows(analysis_data_, "buys"),
                              "weight_change desc"), TopN),
     top_sells |-> Take(Sorted(SelectRows(analysis_data_, "sells"),
                               "weight_change asc"), TopN)]

\* lines 437-471: the files export_to_csv writes, one per non-empty table.
ExportedFiles(tables_) ==
    { name \in {"holdings", "buys", "sells"} :
        \/ name = "holdings" /\ tables_.top_holdings # <<>>
        \/ name = "buys" /\ tables_.top_buys # <<>>
        \/ name = "sells" /\ tables_.top_sells # <<>> }

----------------------------------------------------------------------------
\* __init__

\* A client-identification label is a sequence of pieces of text.  line 16:
\* the default label.
DefaultUserAgent == <<"Investment Research analysis", "@", "example.com">>

\* The labels a caller may construct the analyzer with.
UserAgents == {DefaultUserAgent, <<"Investment Research">>}

\* lines 23-25: the label is stored in the session headers as it is given.
__init__(label) == label

----------------------------------------------------------------------------
Init ==
    /\ pc = "locate"
    /\ steps = <<>>
    /\ export_csv \in BOOLEAN
    /\ user_agent \in { __init__(label) : label \in UserAgents }
    /\ recent = <<>>
    /\ filings = <<>>
    /\ current_accession = 0
    /\ previous_accession = 0
    /\ url_i = 0
    /\ requests = <<>>
    /\ current_xml = NoXml
    /\ previous_xml = NoXml
    /\ current_holdings = NoHoldings
    /\ previous_holdings = NoHoldings
    /\ parse_report = <<>>
    /\ analysis_data = <<>>
    /\ tables = <<>>
    /\ exported = {}
    /\ error = ""
    /\ results = <<>>

\* The order with the current payload parsed before the previous one is
\* fetched.
AfterParsingEarly(step) ==
    CASE step = "locate"         -> "fetch_current"
      [] step = "fetch_current"  -> "parse_current"
      [] step = "parse_current"  -> "fetch_previous"
      [] step = "fetch_previous" -> "parse_previous"
      [] step = "parse_previous" -> "compute"
      [] step = "compute"        -> "rank"
      [] step = "rank"           -> "report"
      [] OTHER                   -> "done"

\* lines 494-546: the order in which analyze_institution runs its steps.
After(step) ==
    CASE step = "locate"         -> "fetch_current"
      [] step = "fetch_current"  -> "fetch_previous"
      [] step = "fetch_previous" -> "parse_current"
      [] step = "parse_current"  -> "parse_previous"
      [] step = "parse_previous" -> "compute"
      [] step = "compute"        -> "rank"
      [] step = "rank"           -> "report"
      [] OTHER                   -> "done"

FetchSteps == {"fetch_current", "fetch_previous"}

\* analyze_institution moves on to `step`: the call is made.
Enter(step) ==
    /\ pc' = step
    /\ steps' = IF step = "done" THEN steps ELSE Append(steps, step)
    /\ url_i' = IF step \in FetchSteps THEN 1 ELSE 0

\* lines 548-550: the exception leaves analyze_institution.
Raise(message) ==
    /\ pc' = "failed"
    /\ error' = message
    /\ url_i' = 0
    /\ UNCHANGED steps

\* lines 496 and 94-150: the call of get_recent_13f_filings.
GetRecent13FFilings ==
    /\ pc = "locate"
    /\ steps' = Append(steps, "locate")
    /\ \/ \* lines 119-124: the submission index cannot be fetched
          /\ pc' = "failed"
          /\ error' = "Failed to fetch submission data"
          /\ UNCHANGED <<recent, filings, current_accession, previous_accession>>
       \/ \E idx \in IndexInputs :
            LET kept == FilterForms(idx) IN
            /\ recent' = idx
            /\ IF Insufficient(kept)
               THEN /\ pc' = "failed"
                    /\ error' = "need at least 2"
                    /\ filings' = kept
                    /\ UNCHANGED <<current_accession, previous_accession>>
               ELSE /\ pc' = "located"
                    /\ filings' = SortByDateDesc(kept)
                    /\ current_accession' = filings'[1].accession
                    /\ previous_accession' = filings'[2].accession
                    /\ UNCHANGED error
    /\ UNCHANGED <<export_csv, user_agent, parse_report, url_i, requests, current_xml, previous_xml,
                   current_holdings, previous_holdings, analysis_data, tables,
                   exported, results>>

\* lines 499-502: get_recent_13f_filings has returned (its locals are gone);
\* after the sleep the next step is entered.
LeaveLocator ==
    /\ pc = "located"
    /\ Enter(After("locate"))
    /\ recent' = <<>>
    /\ filings' = <<>>
    /\ UNCHANGED <<export_csv, user_agent, parse_report, current_accession, previous_accession, requests,
                   current_xml, previous_xml, current_holdings,
                   previous_holdings, analysis_data, tables, exported, error,
                   results>>

\* line 187: the response is taken as the document.
Accepted(r) == ~r.raised /\ r.status = 200

\* The loop with the try/except left out: an exception of session.get leaves
\* fetch_13f_xml.
LoopOutcomeUncaught(r) ==
    IF r.raised THEN "raise" ELSE IF r.status = 200 THEN "return" ELSE "next"

\* lines 183-194: what one pass of the loop does with the outcome of
\* session.get: "return" the text, or "next" candidate.
LoopOutcome(r) == IF Accepted(r) THEN "return" ELSE "next"

\* lines 502-510: fetch_13f_xml returns xml to analyze_institution.
FetchReturns(xml) ==
    IF pc = "fetch_current"
    THEN /\ current_xml' = xml
         /\ UNCHANGED previous_xml
         /\ IF Falsy(xml)
            THEN Raise("Could not fetch current quarter XML")
            ELSE Enter(After(pc)) /\ UNCHANGED error
    ELSE /\ previous_xml' = xml
         /\ UNCHANGED current_xml
         /\ IF Falsy(xml)
            THEN Raise("Could not fetch previous quarter XML")
            ELSE Enter(After(pc)) /\ UNCHANGED error

FetchedAccession ==
    IF pc = "fetch_current" THEN current_accession ELSE previous_accession

\* The loop asking the same candidate again after an exception.
RetryOnException(i, r) == IF r.raised THEN i ELSE i + 1

\* lines 183-194: `for url in possible_urls` moves to the next candidate
\* whatever the pass before did (`continue` at line 194 included).
NextUrl(i, r) == i + 1

\* lines 183-194: one pass of the loop over possible_urls.
TryUrl ==
    /\ pc \in FetchSteps
    /\ url_i \in 1..Len(possible_urls)
    /\ \E r \in Responses :
         /\ requests' = Append(requests,
                [accession |-> FetchedAccession, url |-> possible_urls[url_i],
                 outcome |-> IF r.raised THEN "raised"
                             ELSE IF r.status = 200 THEN "HTTP 200"
                             ELSE "HTTP 404",
                 text |-> r.text])
         /\ CASE LoopOutcome(r) = "return" -> FetchReturns(r.text)
              [] LoopOutcome(r) = "next" ->
                    /\ url_i' = NextUrl(url_i, r)
                    /\ UNCHANGED <<pc, steps, error, current_xml, previous_xml>>
              [] OTHER -> \* the exception leaves fetch_13f_xml
                    /\ Raise("request failed")
                    /\ UNCHANGED <<current_xml, previous_xml>>
    /\ UNCHANGED <<export_csv, user_agent, parse_report, recent, filings, current_accession,
                   previous_accession, current_holdings, previous_holdings,
                   analysis_data, tables, exported, results>>

\* lines 196-197: every candidate has been tried; fetch_13f_xml returns None.
FetchNotFound ==
    /\ pc \in FetchSteps
    /\ url_i > Len(possible_urls)
    /\ FetchReturns(NoXml)
    /\ UNCHANGED <<export_csv, user_agent, parse_report, recent, filings, current_accession,
                   previous_accession, requests, current_holdings,
                   previous_holdings, analysis_data, tables, exported, results>>

\* line 513: current_holdings = self.parse_13f_xml(current_xml)
ParseCurrent ==
    /\ pc = "parse_current"
    /\ current_holdings' = parse_13f_xml(current_xml)
    /\ parse_report' = Printed(parse_report, current_xml)
    /\ Enter(After(pc))
    /\ UNCHANGED <<export_csv, user_agent, recent, filings, current_accession,
                   previous_accession, requests, current_xml, previous_xml,
                   previous_holdings, analysis_data, tables, exported, error,
                   results>>

\* lines 514-517: previous_holdings = self.parse_13f_xml(previous_xml), then
\* the check of current_holdings.
ParsePrevious ==
    /\ pc = "parse_previous"
    /\ previous_holdings' = parse_13f_xml(previous_xml)
    /\ parse_report' = Printed(parse_report, previous_xml)
    /\ IF DOMAIN current_holdings = {}
       THEN Raise("No current holdings data found")
       ELSE Enter(After(pc)) /\ UNCHANGED error
    /\ UNCHANGED <<export_csv, user_agent, recent, filings, current_accession,
                   previous_accession, requests, current_xml, previous_xml,
                   current_holdings, analysis_data, tables, exported, results>>

\* The call with the records read by indexing a defaultdict: every key of
\* one snapshot is created in the other.
ComputeCreatingKeys ==
    /\ pc = "compute"
    /\ \E order \in Orders(DOMAIN current_holdings \cup DOMAIN previous_holdings) :
         analysis_data' =
             calculate_portfolio_changes(current_holdings, previous_holdings, order)
    /\ current_holdings' =
           [k \in DOMAIN current_holdings \cup DOMAIN previous_holdings |->
               Lookup(current_holdings, k)]
    /\ previous_holdings' =
           [k \in DOMAIN current_holdings \cup DOMAIN previous_holdings |->
               Lookup(previous_holdings, k)]
    /\ Enter(After(pc))
    /\ UNCHANGED <<export_csv, user_agent, parse_report, recent, filings, current_accession,
                   previous_accession, requests, current_xml, previous_xml,
                   tables, exported, error, results>>

\* line 520: the snapshots are read with .get (lines 336-337), the rows are
\* appended to a new list (lines 332, 356).
Compute ==
    /\ pc = "compute"
    /\ \E order \in Orders(DOMAIN current_holdings \cup DOMAIN previous_holdings) :
         analysis_data' =
             calculate_portfolio_changes(current_holdings, previous_holdings, order)
    /\ Enter(After(pc))
    /\ UNCHANGED <<export_csv, user_agent, parse_report, recent, filings, current_accession,
                   previous_accession, requests, current_xml, previous_xml,
                   current_holdings, previous_holdings, tables, exported, error,
                   results>>

\* line 523
Rank ==
    /\ pc = "rank"
    /\ tables' = generate_tables(analysis_data)
    /\ Enter(After(pc))
    /\ UNCHANGED <<export_csv, user_agent, parse_report, recent, filings, current_accession,
                   previous_accession, requests, current_xml, previous_xml,
                   current_holdings, previous_holdings, analysis_data, exported,
                   error, results>>

\* lines 525-546: the tables are printed, exported when asked, and returned.
Report ==
    /\ pc = "report"
    /\ exported' = IF export_csv THEN ExportedFiles(tables) ELSE {}
    /\ results' = [cik |-> "cik",
                   current_accession |-> current_accession,
                   previous_accession |-> previous_accession,
                   top_holdings |-> tables.top_holdings,
                   top_buys |-> tables.top_buys,
                   top_sells |-> tables.top_sells,
                   analysis_data |-> analysis_data]
    /\ Enter(After(pc))
    /\ UNCHANGED <<export_csv, user_agent, parse_report, recent, filings, current_accession,
                   previous_accession, requests, current_xml, previous_xml,
                   current_holdings, previous_holdings, analysis_data, tables,
                   error>>

Next ==
    \/ GetRecent13FFilings
    \/ LeaveLocator
    \/ TryUrl
    \/ FetchNotFound
    \/ ParseCurrent
    \/ ParsePrevious
    \/ Compute
    \/ Rank
    \/ Report

Spec == Init /\ [][Next]_vars

----------------------------------------------------------------------------
\* parse_13f_xml, calculate_portfolio_changes and generate_tables on payloads
\* drawn from bounded sets: the run from the point where both payloads have
\* been fetched.

\* Most <infoTable> rows of the current payload.
MaxRows == 2

\* Most <infoTable> rows of the previous payload.
MaxRowsBefore == 1

\* The identifiers the rows carry: two share classes of one issuer (same
\* first 8 characters) and another issuer.
Cusips == {CusipA, CusipA2, CusipB}

\* The values the rows state, in thousands: float() takes a sign.
Values == {-2, 0, 2}

\* <nameOfIssuer> and <sshPrnamt> as they are filed for an identifier.
IssuerOf(cusip) ==
    CASE cusip = CusipA  -> "Acme Corp "
      [] cusip = CusipA2 -> "ACME CORP"
      [] OTHER           -> "BETA INC"
SharesOf(cusip) ==
    CASE cusip = CusipA  -> 5
      [] cusip = CusipA2 -> 3
      [] OTHER           -> 7

\* An <infoTable> row with its four elements; parse_13f_xml (lines 241-243)
\* reads the first three.
FullRow(cusip, value) ==
    [issuer |-> <<IssuerOf(cusip)>>, cusip |-> <<cusip>>,
     value |-> <<[num |-> TRUE, v |-> value]>>, shares |-> <<SharesOf(cusip)>>]

\* Rows float() or the field lookup fail on: no <value> element, and a value
\* that is no number.
BadRows ==
    { [issuer |-> <<"BETA INC">>, cusip |-> <<CusipB>>, value |-> <<>>,
       shares |-> <<7>>],
      [issuer |-> <<"BETA INC">>, cusip |-> <<CusipB>>,
       value |-> <<[num |-> FALSE, v |-> 0]>>, shares |-> <<7>>] }

\* A row whose <nameOfIssuer> holds blanks only: strip() leaves the empty
\* name (line 249).
BlankRows ==
    { [issuer |-> <<"  ">>, cusip |-> <<CusipB>>,
       value |-> <<[num |-> TRUE, v |-> 2]>>, shares |-> <<7>>] }

RowInputs ==
    { FullRow(c, v) : c \in Cusips, v \in Values } \cup BadRows \cup BlankRows

SeqsUpTo(S, n) == UNION { [1..k -> S] : k \in 0..n }

\* Well-formed holdings tables of up to n rows.
Payloads(n) ==
    { Document({"informationtable", "infotable", "nameofissuer", "cusip"}, TRUE, rows)
        : rows \in SeqsUpTo(RowInputs, n) }

\* lines 512-513: analyze_institution holds both payloads and calls the
\* parser.
InitDerive ==
    /\ pc = "parse_current"
    /\ steps = <<"locate", "fetch_current", "fetch_previous", "parse_current">>
    /\ export_csv = FALSE
    /\ user_agent = __init__(DefaultUserAgent)
    /\ recent = <<>>
    /\ filings = <<>>
    /\ current_accession = 2
    /\ previous_accession = 1
    /\ url_i = 0
    /\ requests = <<>>
    /\ current_xml \in Payloads(MaxRows)
    /\ previous_xml \in Payloads(MaxRowsBefore)
    /\ current_holdings = NoHoldings
    /\ previous_holdings = NoHoldings
    /\ parse_report = <<>>
    /\ analysis_data = <<>>
    /\ tables = <<>>
    /\ exported = {}
    /\ error = ""
    /\ results = <<>>

NextDerive ==
    \/ ParseCurrent
    \/ ParsePrevious
    \/ Compute
    \/ Rank
    \/ Report

SpecDerive == InitDerive /\ [][NextDerive]_vars

----------------------------------------------------------------------------
\* generate_tables applied to lists of rows, shorter and longer than the
\* tables: the rows are those of two payloads of up to MaxPositions
\* positions.

\* Most positions of a payload.
MaxPositions == 22

\* The identifier of position k.
Position(k) == [i \in 1..9 |-> k]

\* How the values of the positions lie in the two payloads.
Shapes == {"spread", "concentrate", "flat", "turnover"}

\* The value position k states in the current and in the previous payload.
ValueNow(shape, k) ==
    CASE shape = "spread"      -> 1 + (k % 2)
      [] shape = "concentrate" -> IF k = 1 THEN 20 ELSE 1
      [] shape = "flat"        -> k % 3
      [] OTHER                 -> IF k % 2 = 1 THEN 1 + (k % 3) ELSE 0
ValueBefore(shape, k) ==
    CASE shape = "spread"      -> IF k = 1 THEN 20 ELSE 1
      [] shape = "concentrate" -> 1 + (k % 2)
      [] shape = "flat"        -> k % 3
      [] OTHER                 -> IF k % 2 = 0 THEN 1 + (k % 3) ELSE 0

PayloadNow(shape, n) ==
    Document({"informationtable", "infotable", "nameofissuer", "cusip"}, TRUE,
             [k \in 1..n |-> FullRow(Position(k), ValueNow(shape, k))])
PayloadBefore(shape, n) ==
    Document({"informationtable", "infotable", "nameofissuer", "cusip"}, TRUE,
             [k \in 1..n |-> FullRow(Position(k), ValueBefore(shape, k))])

\* Lists of up to this many rows are drawn in every arrangement.
MaxArranged == 5

\* Arrangements of the rows of n positions in the list generate_tables is
\* given.  The method takes any list (line 371).  Up to MaxArranged rows:
\* every arrangement.  Longer lists: the rows from any position on around,
\* from the last back to the first, and with two neighbours exchanged; these
\* are some of the n! arrangements, not all of them.
ListOrders(n) ==
    IF n <= MaxArranged
    THEN Orders({ Cusip8(Position(k)) : k \in 1..n })
    ELSE { [i \in 1..n |-> Cusip8(Position(((i + r - 1) % n) + 1))] : r \in 0..(n - 1) }
         \cup { [i \in 1..n |-> Cusip8(Position(n + 1 - i))] }
         \cup { [i \in 1..n |-> Cusip8(Position(IF i = j THEN j + 1
                                                 ELSE IF i = j + 1 THEN j
                                                 ELSE i))] : j \in 1..(n - 1) }

\* The lists generate_tables is applied to: the rows of lines 356-366 for
\* the n positions of a shape, in the arrangements of ListOrders.  The lists
\* analyze_institution passes at line 523 hold the same rows in the order
\* the set all_cusips was visited in (lines 330-334), which may be any;
\* Compute draws every such order for the payloads of SpecDerive.
RankInputs(shape, n) ==
    LET now == parse_13f_xml(PayloadNow(shape, n))
        before == parse_13f_xml(PayloadBefore(shape, n))
    IN { [i \in 1..n |-> DeltaRow(order[i], now, before)] : order \in ListOrders(n) }

\* lines 371-381: generate_tables is called with a list of rows; nothing
\* else of a run is read by it.
InitRank ==
    /\ pc = "rank"
    /\ steps = << "rank" >>
    /\ export_csv = FALSE
    /\ user_agent = __init__(DefaultUserAgent)
    /\ recent = <<>>
    /\ filings = <<>>
    /\ current_accession = 0
    /\ previous_accession = 0
    /\ url_i = 0
    /\ requests = <<>>
    /\ current_xml = NoXml
    /\ previous_xml = NoXml
    /\ current_holdings = NoHoldings
    /\ previous_holdings = NoHoldings
    /\ parse_report = <<>>
    /\ \E n \in 1..MaxPositions, shape \in Shapes :
         analysis_data \in RankInputs(shape, n)
    /\ tables = <<>>
    /\ exported = {}
    /\ error = ""
    /\ results = <<>>

\* lines 383-402: the call returns the three tables.
NextRank == Rank

SpecRank == InitRank /\ [][NextRank]_vars

----------------------------------------------------------------------------
\* Helpers of the properties

ExpectedOrder ==
    << "locate", "fetch_current", "fetch_previous", "parse_current",
       "parse_previous", "compute", "rank" >>

Called(step) == \E i \in DOMAIN steps : steps[i] = step

\* The steps of ExpectedOrder among the calls made, in the order made.
CoreSteps == SelectSeq(steps, LAMBDA x : \E i \in DOMAIN ExpectedOrder : ExpectedOrder[i] = x)

\* A fetch has returned to analyze_institution.
Returned(step) == Called(step) /\ pc # step

\* The entries of the submission index that carry one of the two form types.
Eligible == { i \in DOMAIN recent : recent[i].form \in {"13F-HR", "13F-HR/A"} }

\* get_recent_13f_filings has run on a submission index it could fetch, and
\* analyze_institution has not moved on yet.
LocatorDone ==
    steps = <<"locate">> /\ pc # "locate" /\ error # "Failed to fetch submission data"

\* The requests issued for the documents of one accession, in order.
RequestsFor(a) == SelectSeq(requests, LAMBDA q : q.accession = a)

TableMarkers == {"informationtable", "infotable"}

\* spec 4.3, the shape predicate: non-empty, at least 2 of the four markers,
\* and not a cover page (a submission marker without a table marker).
ShapeOK(text) ==
    /\ ~text.none
    /\ ~text.empty
    /\ Cardinality(text.markers \cap (TableMarkers \cup {"nameofissuer", "cusip"})) >= 2
    /\ ~("submission" \in text.markers /\ text.markers \cap TableMarkers = {})

----------------------------------------------------------------------------
\* C1: in every run the steps are called in the order locate, fetch current,
\* fetch previous, parse current, parse previous, compute, rank; each step
\* has delivered its result before the next is called, and a run that
\* completes has made all seven calls.
C1_StepsInOrder ==
    /\ Len(CoreSteps) <= Len(ExpectedOrder)
    /\ \A i \in DOMAIN CoreSteps : CoreSteps[i] = ExpectedOrder[i]
    /\ Called("fetch_current") => current_accession # 0 /\ previous_accession # 0
    /\ Called("fetch_previous") => ~current_xml.none
    /\ Called("parse_current") => ~previous_xml.none
    /\ Called("compute") => DOMAIN current_holdings # {}
    /\ Called("rank") => analysis_data # <<>>
    /\ pc = "done" => CoreSteps = ExpectedOrder /\ tables # <<>>

C1_Witness ==
    /\ pc = "done"
    /\ CoreSteps = ExpectedOrder
    /\ Len(results.analysis_data) = 3

\* C3: once the fetch of the current period has returned None the run is
\* aborted with an error: nothing is parsed, computed, ranked, exported or
\* returned.
C3_CurrentNotFoundAborts ==
    (Returned("fetch_current") /\ current_xml.none) =>
        /\ pc = "failed"
        /\ error = "Could not fetch current quarter XML"
        /\ results = <<>>
        /\ ~Called("fetch_previous")
        /\ ~Called("parse_current") /\ ~Called("parse_previous")
        /\ ~Called("compute") /\ ~Called("rank") /\ ~Called("report")
        /\ DOMAIN current_holdings = {} /\ DOMAIN previous_holdings = {}
        /\ analysis_data = <<>> /\ tables = <<>>
        /\ exported = {}

C3_Witness ==
    /\ Returned("fetch_current")
    /\ current_xml.none
    /\ export_csv
    /\ Len(RequestsFor(current_accession)) = Len(possible_urls)
    /\ pc = "failed"

\* C5: on a submission index with fewer than 2 entries of the accepted form
\* types get_recent_13f_filings raises and assigns no pair; with 2 or more it
\* returns a pair of two different accepted entries.
C5_InsufficientFilings ==
    LocatorDone =>
        IF Cardinality(Eligible) < 2
        THEN /\ pc = "failed"
             /\ error = "need at least 2"
             /\ current_accession = 0 /\ previous_accession = 0
        ELSE /\ pc = "located"
             /\ error = ""
             /\ current_accession \in Eligible
             /\ previous_accession \in Eligible
             /\ current_accession # previous_accession

C5_Witness ==
    /\ LocatorDone
    /\ Len(recent) = 3
    /\ Cardinality(Eligible) = 1
    /\ pc = "failed"

\* C6: the current accession returned is an entry of an accepted form type
\* whose filing date is the latest among the accepted entries, whatever the
\* order of the index and whatever the other entries are.
C6_CurrentIsLatestEligible ==
    (LocatorDone /\ pc = "located") =>
        /\ current_accession \in Eligible
        /\ \A i \in Eligible : recent[i].date <= recent[current_accession].date

C6_Witness ==
    /\ LocatorDone /\ pc = "located"
    /\ current_accession = 3
    /\ recent[1].form = "13F-HR" /\ recent[1].date < recent[3].date
    /\ recent[2].form = "10-K" /\ recent[2].date >= recent[3].date

\* C10: no exception leaves fetch_13f_xml; a candidate that answered with
\* another status than 200 or whose request raised is followed by the next
\* candidate; when all candidates have failed the call returns None.
C10_FailedCandidateIsSkipped ==
    /\ error # "request failed"
    /\ \A i \in DOMAIN requests :
         requests[i].outcome # "HTTP 200" =>
            \/ requests[i].url = possible_urls[Len(possible_urls)]
            \/ /\ i < Len(requests)
               /\ requests[i + 1].accession = requests[i].accession
               /\ \E k \in 1..(Len(possible_urls) - 1) :
                    /\ requests[i].url = possible_urls[k]
                    /\ requests[i + 1].url = possible_urls[k + 1]
            \/ /\ i = Len(requests)
               /\ pc \in FetchSteps
               /\ requests[i].url = possible_urls[url_i - 1]
    /\ \A step \in FetchSteps :
         LET a == IF step = "fetch_current" THEN current_accession
                  ELSE previous_accession
             xml == IF step = "fetch_current" THEN current_xml ELSE previous_xml
             allFailed ==
                 /\ Len(RequestsFor(a)) = Len(possible_urls)
                 /\ \A i \in DOMAIN RequestsFor(a) : RequestsFor(a)[i].outcome # "HTTP 200"
         IN (Called(step) /\ allFailed) =>
               \/ pc = step /\ url_i = Len(possible_urls) + 1
               \/ Returned(step) /\ xml.none

C10_Witness ==
    /\ Returned("fetch_current")
    /\ ~current_xml.none
    /\ Len(RequestsFor(current_accession)) = 3
    /\ RequestsFor(current_accession)[1].outcome = "raised"
    /\ RequestsFor(current_accession)[2].outcome = "HTTP 404"
    /\ RequestsFor(current_accession)[3].outcome = "HTTP 200"
    /\ Returned("fetch_previous")
    /\ previous_xml.none
    /\ Len(RequestsFor(previous_accession)) = Len(possible_urls)

----------------------------------------------------------------------------
\* Statements the code does not satisfy

\* C2: when the fetch of the previous period returns NotFound the run does
\* not fail; the result it returns says has_previous_data = false and every
\* row of it has previous value 0 and status NEW.
C2_PreviousNotFoundTolerated ==
    (Returned("fetch_previous") /\ previous_xml.none) =>
        /\ pc # "failed"
        /\ pc = "done" =>
             /\ "has_previous_data" \in DOMAIN results
             /\ \A i \in DOMAIN results.analysis_data :
                  /\ results.analysis_data[i].previous_value = 0
                  /\ results.analysis_data[i].status = "NEW"

\* The aborts the propagation policy allows (the analyzer is constructed
\* before the run starts; a registry that cannot be reached is counted with
\* the locator).
AllowedAborts ==
    { "Failed to fetch submission data", "need at least 2",
      "Could not fetch current quarter XML" }

\* The runs in which a fetch has delivered what C2 and C8 are about: no
\* previous payload, or a payload that does not pass the shape predicate.
RestsOnFetch ==
    \/ Returned("fetch_previous") /\ Falsy(previous_xml)
    \/ Returned("fetch_current") /\ ~current_xml.none /\ ~ShapeOK(current_xml)

\* C4: a run is aborted only by the locator or by the failure of the current
\* fetch; a current payload of malformed markup parses to an empty snapshot
\* and the run still returns a result.  (Aborts in the runs of RestsOnFetch
\* are left to C2 and C8.)
C4_OnlyThreeAborts ==
    /\ (pc = "failed" /\ ~RestsOnFetch) => error \in AllowedAborts
    /\ (Called("parse_current") /\ pc # "parse_current" /\ ~current_xml.wellformed)
          => /\ DOMAIN current_holdings = {}
             /\ pc # "failed"

\* The candidates the scan for the previous filing may look at: the up to 4
\* entries behind the current one, newest first.
ScanRange == 2..(IF Len(filings) < 5 THEN Len(filings) ELSE 5)

Scanned(k) == RequestsFor(filings[k].accession) # <<>>

Passes(k) ==
    \E i \in DOMAIN requests :
        /\ requests[i].accession = filings[k].accession
        /\ requests[i].outcome = "HTTP 200"
        /\ ShapeOK(requests[i].text)

\* C7: when the locator returns, it has fetched the content of the scanned
\* candidates in date order up to the first that passes the shape check and
\* returns that one; when none of the scanned candidates passes it has
\* fetched them all and returns the second-newest.
C7_PreviousIsFirstValidCandidate ==
    (LocatorDone /\ pc = "located") =>
        IF \E k \in ScanRange : Passes(k)
        THEN LET first == CHOOSE k \in ScanRange :
                              Passes(k) /\ \A j \in ScanRange : j < k => ~Passes(j)
             IN /\ previous_accession = filings[first].accession
                /\ \A j \in ScanRange : j <= first <=> Scanned(j)
        ELSE /\ previous_accession = filings[2].accession
             /\ \A j \in ScanRange : Scanned(j)

\* The request that delivered the text fetch_13f_xml returned, if any.
DeliveredBy(a, xml) ==
    \E i \in DOMAIN requests :
        /\ requests[i].accession = a
        /\ requests[i].outcome = "HTTP 200"
        /\ requests[i].text = xml

\* C8: a payload returned by fetch_13f_xml came with status 200 and passes
\* the shape predicate.
C8_ReturnedPayloadHasShape ==
    /\ (Returned("fetch_current") /\ ~current_xml.none) =>
          DeliveredBy(current_accession, current_xml) /\ ShapeOK(current_xml)
    /\ (Returned("fetch_previous") /\ ~previous_xml.none) =>
          DeliveredBy(previous_accession, previous_xml) /\ ShapeOK(previous_xml)

\* The candidates of the three tiers, in the order claimed: the directory
\* listing, the bundled document named after the accession, the
\* conventionally-named files.
TierOrder ==
    << "index.json", "{accession}.txt" >> \o possible_urls

TierRank(url) ==
    IF \E k \in DOMAIN TierOrder : TierOrder[k] = url
    THEN CHOOSE k \in DOMAIN TierOrder : TierOrder[k] = url
    ELSE 0

\* C9: the requests of one fetch start with the directory listing, follow the
\* order of the tiers, and end with the first candidate that succeeds
\* (status 200 and the shape check passed).
C9_TiersInPriorityOrder ==
    \A a \in {current_accession, previous_accession} \ {0} :
        LET q == RequestsFor(a) IN
        /\ q # <<>> => q[1].url = TierOrder[1]
        /\ \A i, j \in DOMAIN q : i < j => TierRank(q[i].url) < TierRank(q[j].url)
        /\ \A i \in DOMAIN q :
             (q[i].outcome = "HTTP 200" /\ ShapeOK(q[i].text)) => i = Len(q)
        /\ \A i \in DOMAIN q :
             (i = Len(q) /\ a = current_accession /\ Returned("fetch_current")
                /\ ~current_xml.none)
                => q[i].outcome = "HTTP 200" /\ ShapeOK(q[i].text)

\* spec 6, required client identification: the label carries an "@" contact
\* token.
HasContact(label) == \E i \in DOMAIN label : label[i] = "@"

\* C11: an analyzer whose label carries no "@" contact token is never
\* constructed (construction fails with a configuration error), so such an
\* analyzer makes no call and issues no request.
C11_NoCallWithoutContact ==
    ~HasContact(user_agent) => (steps = <<>> /\ requests = <<>>)

\* The keys of the record analyze returns: the institution id, both
\* disclosure ids, the three tables, the rows, has_previous_data and the sort
\* flag.
ResultKeys ==
    { "cik", "current_accession", "previous_accession", "top_holdings",
      "top_buys", "top_sells", "analysis_data", "has_previous_data",
      "sort_by_share_change" }

\* C12: the record a completed run returns carries every key of ResultKeys.
C12_ResultCarriesAllKeys ==
    (pc = "done" /\ HasContact(user_agent)) => ResultKeys \subseteq DOMAIN results

----------------------------------------------------------------------------
\* Helpers of the properties of the parser and of the deltas

\* A raw row that states all required fields and a numeric value.
GoodRow(row) ==
    row.issuer # <<>> /\ row.cusip # <<>> /\ row.value # <<>> /\ row.value[1].num

\* The raw rows of a payload that map to an identity key.
RowsOf(xml, key) ==
    SelectSeq(xml.rows, LAMBDA row : GoodRow(row) /\ Cusip8(row.cusip[1]) = key)

\* The identity keys the raw rows of a payload map to.
KeysOf(xml) ==
    { Cusip8(xml.rows[i].cusip[1]) : i \in { j \in DOMAIN xml.rows : GoodRow(xml.rows[j]) } }

\* The sum of the stated values (in base units), or of the stated share
\* counts, of a sequence of raw rows.
RECURSIVE SumStated(_, _)
SumStated(rows, field) ==
    IF rows = <<>> THEN 0
    ELSE (IF field = "value" THEN Head(rows).value[1].v * 1000
          ELSE Head(rows).shares[1])
         + SumStated(Tail(rows), field)

\* No row of the payload states a value below 0.
NonNegative(xml) ==
    \A i \in DOMAIN xml.rows :
        GoodRow(xml.rows[i]) => xml.rows[i].value[1].v >= 0

\* spec 3: the record of an identity key carries its value and its share
\* count, the sums over the raw rows of the key.
SnapshotSums(xml, holdings) ==
    /\ DOMAIN holdings = KeysOf(xml)
    /\ \A key \in DOMAIN holdings :
         /\ holdings[key].market_value = SumStated(RowsOf(xml, key), "value")
         /\ "shares" \in DOMAIN holdings[key]
         /\ holdings[key].shares = SumStated(RowsOf(xml, key), "shares")

\* C13: in a snapshot the parser has produced, the keys are those of the raw
\* rows, each once, and the record of a key carries as market value and as
\* share count the sums over the raw rows that map to the key.
\* Stated for the payloads in which rows are merged: two raw rows map to one
\* key.  (Payloads that state a value below 0 are left to C23.)
Merges(xml) ==
    /\ NonNegative(xml)
    /\ \E key \in KeysOf(xml) :
         /\ Len(RowsOf(xml, key)) >= 2
         /\ \A i \in DOMAIN RowsOf(xml, key) : RowsOf(xml, key)[i].value[1].v > 0

C13_SnapshotSumsRawRows ==
    /\ (Returned("parse_current") /\ Merges(current_xml))
          => SnapshotSums(current_xml, current_holdings)
    /\ (Returned("parse_previous") /\ Merges(previous_xml))
          => SnapshotSums(previous_xml, previous_holdings)

\* C14: a well-formed payload of a single row parses to a snapshot of exactly
\* one record: keyed by the first 8 characters of the identifier, named by
\* the issuer name in upper case, valued at the stated value times 1000, with
\* the stated share count.  (The row states a value above 0, as the example
\* of the claim does.)
C14_SingleRowRoundTrip ==
    (/\ Returned("parse_current")
     /\ Len(current_xml.rows) = 1
     /\ GoodRow(current_xml.rows[1])
     /\ current_xml.rows[1].value[1].v > 0) =>
        LET row == current_xml.rows[1]
            key == Cusip8(row.cusip[1])
        IN /\ DOMAIN current_holdings = {key}
           /\ Len(key) = 8
           /\ current_holdings[key].company_name = StripUpper(row.issuer[1])
           /\ current_holdings[key].market_value = row.value[1].v * 1000
           /\ "shares" \in DOMAIN current_holdings[key]
           /\ current_holdings[key].shares = row.shares[1]

\* spec 3, DeltaRow: the status of a row by its two values.
StatusRule(row) ==
    /\ row.status \in {"NEW", "EXIT", "CHANGE"}
    /\ row.status = "NEW" <=> row.previous_value = 0
    /\ row.status = "EXIT" <=> (row.current_value = 0 /\ row.previous_value > 0)

\* C15: every row of the deltas has status NEW exactly when its previous
\* value is 0, EXIT exactly when its current value is 0 and its previous
\* value is above 0, and CHANGE otherwise.
C15_StatusFollowsValues ==
    \A i \in DOMAIN analysis_data : StatusRule(analysis_data[i])

FracAdd(a, b) == Frac(a.n * b.d + b.n * a.d, a.d * b.d)

\* The sum of the weights of one side ("current" or "previous") over the
\* rows whose value on that side is not 0.
RECURSIVE SumWeights(_, _)
SumWeights(rows, side) ==
    IF rows = <<>> THEN Frac(0, 1)
    ELSE LET row == Head(rows)
             value == IF side = "current" THEN row.current_value
                      ELSE row.previous_value
             weight == IF side = "current" THEN row.weight_current
                       ELSE row.weight_previous
         IN IF value = 0 THEN SumWeights(Tail(rows), side)
            ELSE FracAdd(weight, SumWeights(Tail(rows), side))

\* spec 3, DeltaRow invariant: the weights of a snapshot with a total other
\* than 0 sum to 100; in a snapshot with total 0 every weight is 0.
WeightsOf(holdings, side) ==
    IF SumValues(holdings, DOMAIN holdings) # 0
    THEN SumWeights(analysis_data, side) = Frac(100, 1)
    ELSE \A i \in DOMAIN analysis_data :
            (IF side = "current" THEN analysis_data[i].weight_current
             ELSE analysis_data[i].weight_previous) = Frac(0, 1)

\* C16: in the deltas of two snapshots, the weights of a snapshot whose
\* values sum to another total than 0 add up to 100 over its keys of nonzero
\* value, and every weight of a snapshot whose values sum to 0 is 0.
C16_WeightsSumTo100 ==
    Returned("compute") =>
        /\ WeightsOf(current_holdings, "current")
        /\ WeightsOf(previous_holdings, "previous")

\* The share count a payload states for an identity key.
SharesIn(xml, key) == SumStated(RowsOf(xml, key), "shares")

\* C17: every row of the deltas carries the share counts of both snapshots,
\* their difference, and the difference as a percentage of the previous
\* share count, null exactly when the previous share count is 0.  (Payloads
\* that state a value below 0 are left to C23.)
C17_RowsCarryShareChange ==
    (NonNegative(current_xml) /\ NonNegative(previous_xml)) =>
    \A i \in DOMAIN analysis_data :
        LET row == analysis_data[i] IN
        /\ { "current_shares", "previous_shares", "share_change_abs",
             "share_change_pct" } \subseteq DOMAIN row
        /\ row.current_shares = SharesIn(current_xml, row.cusip)
        /\ row.previous_shares = SharesIn(previous_xml, row.cusip)
        /\ row.share_change_abs = row.current_shares - row.previous_shares
        /\ row.share_change_pct.null <=> row.previous_shares = 0
        /\ ~row.share_change_pct.null =>
              row.share_change_pct.v = Frac(row.share_change_abs * 100, row.previous_shares)

\* The change of the share count of an identity key between the payloads.
ShareChange(key) == SharesIn(current_xml, key) - SharesIn(previous_xml, key)

\* C18: every row of Buys has a share count that rose and a weight that
\* rose; every row of Sells has a share count that fell and a weight that
\* fell.  (Payloads that state a value below 0 are left to C23.)
C18_BuysAndSellsAreRealMoves ==
    (Returned("rank") /\ NonNegative(current_xml) /\ NonNegative(previous_xml)) =>
        /\ \A i \in DOMAIN tables.top_buys :
             /\ ShareChange(tables.top_buys[i].cusip) > 0
             /\ FracSign(tables.top_buys[i].weight_change) > 0
        /\ \A i \in DOMAIN tables.top_sells :
             /\ ShareChange(tables.top_sells[i].cusip) < 0
             /\ FracSign(tables.top_sells[i].weight_change) < 0

----------------------------------------------------------------------------
\* Properties of the tables

\* spec 4.6: Buys is cut to its top 10.
TopBuys == 10

\* C19: Holdings has at most 20 rows, Buys at most 10, Sells at most 20.
C19_TableSizes ==
    Returned("rank") =>
        /\ Len(tables.top_holdings) <= 20
        /\ Len(tables.top_buys) <= TopBuys
        /\ Len(tables.top_sells) <= 20

\* The rows of the deltas a table is drawn from: all of them for Holdings,
\* those whose weight rose for Buys, those whose weight fell for Sells.
Candidates(table) ==
    { analysis_data[i] : i \in
        { j \in DOMAIN analysis_data :
            CASE table = "top_buys"  -> analysis_data[j].weight_change.n > 0
              [] table = "top_sells" -> analysis_data[j].weight_change.n < 0
              [] OTHER               -> TRUE } }

\* Row x ranks strictly ahead of row y in the ordering of a table.
Ahead(table, x, y) ==
    CASE table = "top_buys"  ->
             x.weight_change.n * y.weight_change.d > y.weight_change.n * x.weight_change.d
      [] table = "top_sells" ->
             x.weight_change.n * y.weight_change.d < y.weight_change.n * x.weight_change.d
      [] OTHER ->
             x.weight_current.n * y.weight_current.d > y.weight_current.n * x.weight_current.d

\* The table t is in its ordering, holds candidates only and none twice, and
\* no candidate left out of it ranks strictly ahead of a row in it.
TopOf(table, t) ==
    /\ \A i, j \in DOMAIN t : i < j => ~Ahead(table, t[j], t[i])
    /\ \A i \in DOMAIN t : t[i] \in Candidates(table)
    /\ \A i, j \in DOMAIN t : i # j => t[i].cusip # t[j].cusip
    /\ \A x \in Candidates(table) :
         (\A i \in DOMAIN t : t[i] # x) => \A i \in DOMAIN t : ~Ahead(table, x, t[i])
    /\ Candidates(table) # {} => t # <<>>

\* C20: Holdings is sorted by current weight descending, Buys by weight
\* change descending, Sells by weight change ascending; each table holds rows
\* of the deltas, and no row left out of a table by truncation ranks
\* strictly ahead of a row in it.  Holdings and Sells leave a row out only
\* when they hold 20.
C20_TablesAreTopOfOrdering ==
    Returned("rank") =>
        /\ TopOf("top_holdings", tables.top_holdings)
        /\ TopOf("top_buys", tables.top_buys)
        /\ TopOf("top_sells", tables.top_sells)
        /\ Len(tables.top_holdings) < 20 =>
              Len(tables.top_holdings) = Cardinality(Candidates("top_holdings"))
        /\ Len(tables.top_sells) < 20 =>
              Len(tables.top_sells) = Cardinality(Candidates("top_sells"))

\* Deltas of more than 20 rows whose weight rose, of two different rises: a
\* row is left out of Buys and of Holdings by truncation, and Holdings holds
\* a row that lies behind the 20th place of the deltas.
C20_Witness ==
    /\ Returned("rank")
    /\ Cardinality(Candidates("top_buys")) > 20
    /\ \E x \in Candidates("top_buys") :
         \A i \in DOMAIN tables.top_buys : tables.top_buys[i] # x
    /\ \E i, j \in DOMAIN tables.top_buys :
         Ahead("top_buys", tables.top_buys[i], tables.top_buys[j])
    /\ Len(tables.top_holdings) = 20
    /\ \E i \in DOMAIN analysis_data, j \in DOMAIN tables.top_holdings :
         /\ i > 20
         /\ analysis_data[i] = tables.top_holdings[j]

\* C21: every row of Holdings has a current market value other than 0: an
\* exited position is not listed, also when fewer than 20 positions are
\* held.  Stated for the payloads whose rows all state a value above 0, so
\* that a current value of 0 is that of a position no longer held.
Positive(xml) ==
    \A i \in DOMAIN xml.rows :
        GoodRow(xml.rows[i]) => xml.rows[i].value[1].v > 0

C21_HoldingsAreHeld ==
    (Returned("rank") /\ Positive(current_xml) /\ Positive(previous_xml)) =>
        \A i \in DOMAIN tables.top_holdings :
            tables.top_holdings[i].current_value # 0

\* C23: every record of a snapshot the parser has produced has a market
\* value of at least 0, whatever the payload states; so no total and no
\* weight of the deltas is below 0.
C23_ValuesNotNegative ==
    /\ \A key \in DOMAIN current_holdings : current_holdings[key].market_value >= 0
    /\ \A key \in DOMAIN previous_holdings : previous_holdings[key].market_value >= 0
    /\ \A i \in DOMAIN analysis_data :
         /\ analysis_data[i].weight_current.n >= 0
         /\ analysis_data[i].weight_previous.n >= 0

\* The company name is a key of the ticker mapping.
InMapping(name) == \E i \in DOMAIN ticker_mapping : ticker_mapping[i].pattern = name

\* C26: a row of the deltas carries a ticker only when its company name is
\* found in the ticker mapping, and 'N/A' otherwise; a row whose company name
\* is empty carries 'N/A'.  (Payloads that state a value below 0 are left to
\* C23.)
C26_TickerOnlyForMappedNames ==
    (NonNegative(current_xml) /\ NonNegative(previous_xml)) =>
    \A i \in DOMAIN analysis_data :
        /\ analysis_data[i].ticker # "N/A" => InMapping(analysis_data[i].company_name)
        /\ analysis_data[i].company_name = "" => analysis_data[i].ticker = "N/A"

----------------------------------------------------------------------------
\* Rows the parser skips

\* The payload without the rows that lack a required field or state a value
\* that is no number.
WithoutBadRows(xml) == [xml EXCEPT !.rows = SelectSeq(@, GoodRow)]

BadRowCount(xml) == Len(SelectSeq(xml.rows, LAMBDA row : ~GoodRow(row)))

\* What a parse that skips exactly the bad rows leaves: one error counted per
\* bad row, every other row processed, the keys and the summed values of the
\* other rows only, and the snapshot the payload gives with the bad rows
\* taken out.
SkipsBadRows(xml, holdings, counts) ==
    /\ counts.errors = BadRowCount(xml)
    /\ counts.processed = Len(xml.rows) - BadRowCount(xml)
    /\ DOMAIN holdings = KeysOf(xml)
    /\ \A key \in DOMAIN holdings :
         holdings[key].market_value = SumStated(RowsOf(xml, key), "value")
    /\ holdings = parse_13f_xml(WithoutBadRows(xml))

\* C22: a row that lacks a required field or whose value is no number is
\* skipped by the parser: it adds one to the error count, adds no key to the
\* snapshot and changes no record, and every other row of the payload is
\* accumulated.  Stated of what each call of the parser has returned, in
\* the state it returns to.
C22_BadRowsAreSkipped ==
    /\ (pc = "parse_previous" /\ ~ParseFails(current_xml)) =>
           /\ parse_report # <<>>
           /\ SkipsBadRows(current_xml, current_holdings, parse_report[1])
    /\ (pc \in {"compute", "failed"} /\ Returned("parse_previous")
           /\ ~ParseFails(previous_xml)) =>
           /\ parse_report # <<>>
           /\ SkipsBadRows(previous_xml, previous_holdings,
                           parse_report[Len(parse_report)])

\* C22 witness: both parses have returned; the current payload held a good
\* row followed by a row of the same key whose value is no number, the
\* previous payload a single row without a value.
C22_Witness ==
    /\ Returned("parse_previous")
    /\ Len(current_xml.rows) = 2
    /\ GoodRow(current_xml.rows[1])
    /\ current_xml.rows[2].value # <<>> /\ ~current_xml.rows[2].value[1].num
    /\ Cusip8(current_xml.rows[1].cusip[1]) = Cusip8(current_xml.rows[2].cusip[1])
    /\ current_xml.rows[1].value[1].v > 0
    /\ Len(previous_xml.rows) = 1 /\ previous_xml.rows[1].value = <<>>
    /\ parse_report = << [processed |-> 1, errors |-> 1],
                         [processed |-> 0, errors |-> 1] >>
    /\ previous_holdings = NoHoldings

----------------------------------------------------------------------------
\* Requests of one run

\* How often the run has called a step.
Calls(step) == Cardinality({ i \in DOMAIN steps : steps[i] = step })

\* The (disclosure, location) pairs the run has requested.
Requested == { <<requests[i].accession, requests[i].url>> : i \in DOMAIN requests }

\* The candidate locations of one disclosure.
CandidateUrls == { possible_urls[k] : k \in DOMAIN possible_urls }

\* C24: in one run no document location is requested twice for the same
\* disclosure (the requests are as many as the pairs requested); every
\* request is for a candidate of one of the two disclosures of the run, so
\* the requests are at most the distinct candidates; the submission index
\* and each disclosure are asked for by one call.
C24_NoLocationRequestedTwice ==
    /\ Cardinality(Requested) = Len(requests)
    /\ Requested \subseteq {current_accession, previous_accession} \X CandidateUrls
    /\ Len(requests) <= 2 * Cardinality(CandidateUrls)
    /\ Calls("locate") <= 1
    /\ \A step \in FetchSteps : Calls(step) <= 1

\* C24 witness: both fetches have returned after failed attempts; the
\* current document came from the last candidate after three failures, one
\* of them an exception, and every candidate of the previous disclosure
\* failed, the first with an exception.
C24_Witness ==
    /\ Returned("fetch_current") /\ Returned("fetch_previous")
    /\ Len(requests) = 2 * Len(possible_urls)
    /\ requests[1].outcome = "raised"
    /\ requests[Len(possible_urls)].outcome = "HTTP 200"
    /\ requests[Len(possible_urls) + 1].outcome = "raised"
    /\ requests[Len(possible_urls) + 1].accession = previous_accession
    /\ \A i \in (Len(possible_urls) + 1)..Len(requests) :
         requests[i].outcome # "HTTP 200"
    /\ previous_xml.none

----------------------------------------------------------------------------
\* Inputs of the derivation

\* C25: calculate_portfolio_changes leaves both snapshots as they are, key
\* sets and records, and from then on nothing changes them; generate_tables
\* and the report leave the list of rows as it is, rows and order.
C25_DerivationKeepsInputs ==
    [][ /\ pc \in {"compute", "rank", "report"} =>
              /\ current_holdings' = current_holdings
              /\ previous_holdings' = previous_holdings
        /\ pc \in {"rank", "report"} => analysis_data' = analysis_data ]_vars

\* C25 witness: the tables have been generated from rows that were not in
\* the order of the Holdings table, one of a key held now only and one of a
\* key held before only, and each snapshot still has its own keys only.
C25_Witness ==
    /\ Returned("rank")
    /\ DOMAIN current_holdings \ DOMAIN previous_holdings # {}
    /\ DOMAIN previous_holdings \ DOMAIN current_holdings # {}
    /\ Len(analysis_data) =
           Cardinality(DOMAIN current_holdings \cup DOMAIN previous_holdings)
    /\ Len(tables.top_holdings) = Len(analysis_data)
    /\ tables.top_holdings # analysis_data
    /\ \E i \in DOMAIN analysis_data :
         /\ analysis_data[i].cusip \notin DOMAIN current_holdings
         /\ analysis_data[i].status = "EXIT"

====
